---------------------------- MODULE Spec2Model ----------------------------
(***************************************************************************)
(* Model of the cancellable-generation chat protocol of the SFC Wizard     *)
(* chat UI (sfc_wizard/ui.py): the socket handlers of ChatUI, the          *)
(* background thread process_agent_response, the supervisor                *)
(* StoppableAgent.run_with_timeout, the worker StoppableAgent.run_in_thread *)
(* and StreamingOutputCapture.                                             *)
(*                                                                         *)
(* Threads are interleaved at the statements that read or write state      *)
(* shared between threads (conversations, stop_events, the Event flags,    *)
(* sys.stdout, the StoppableAgent slots).  A generation is identified by   *)
(* a number that its threading.Event, its capture and its worker share;    *)
(* the number is used again once nothing refers to the generation.         *)
(*                                                                         *)
(* The utilities of sfc_wizard/ui/utils (ConversationState, Paginator,     *)
(* cache_data) keep their state in st.session_state; each has its own      *)
(* specification over its own variables.                                   *)
(***************************************************************************)
EXTENDS Integers, Sequences, FiniteSets, TLC

\* ------------------------------------------------------------------ bounds
\* Number of generations whose threads, events or captures exist at once.
MaxGens == 2
\* Number of agent calls still running when a patient client sends a message.
MaxWorkers == 0
\* Number of non-empty messages a client sends before it clears the conversation.
MaxCalls == 2
\* Number of fragments one agent call writes to sys.stdout.
MaxWrites == 1
\* Seconds of wall-clock time that pass in one Tick.
TickSeconds == 150
\* Number of fragments one agent call writes when its output is followed.
MaxStreamWrites == 3

\* -------------------------------------------------------- program constants
\* run_with_timeout(self, message, timeout=300)
timeout == 300
\* len(self.accumulated_output) > 100
SizeThreshold == 100

Sessions == {"session_a", "session_b"}
\* Sessions whose clients send requests.
Clients == {"session_a"}
Gens == 1..MaxGens
\* sys.stdout holds the original stream (0) or the capture of a generation.
Streams == {0} \cup Gens

\* ------------------------------------------------------------------ text
\* Messages are sequences of characters; str.strip() and str.lower() are
\* computed on them.
IsSpace(c) == c \in {" ", "\n", "\t"}

RECURSIVE LStrip(_)
LStrip(t) == IF t # <<>> /\ IsSpace(Head(t)) THEN LStrip(Tail(t)) ELSE t

RECURSIVE RStrip(_)
RStrip(t) ==
  IF t # <<>> /\ IsSpace(t[Len(t)]) THEN RStrip(SubSeq(t, 1, Len(t) - 1)) ELSE t

Strip(t) == RStrip(LStrip(t))

LowerChar(c) ==
  CASE c = "E" -> "e"
    [] c = "X" -> "x"
    [] c = "I" -> "i"
    [] c = "T" -> "t"
    [] c = "H" -> "h"
    [] OTHER -> c

Lower(t) == [i \in 1..Len(t) |-> LowerChar(t[i])]

ExitCommands == { <<"e","x","i","t">>, <<"q","u","i","t">>, <<"b","y","e">> }

\* The texts a client sends in data["message"].
Inputs ==
  { <<" ">>,
    <<"h","i">>,
    <<" ","E","x","i","t">> }

\* Fixed texts of the program, one token each.
WelcomeText == <<"SFC WIZARD welcome">>
GoodbyeText == <<"Thank you for using the SFC Wizard!">>
StoppedText == <<"Generation stopped by user.">>
TimedOutText == <<"Generation timed out after 300 seconds.">>
ErrorText == <<"Error: ", "e">>
ResultText == <<"str(result)">>
NoResponseText == <<"No response generated.">>

UserMsg(text) == [role |-> "user", content |-> text]
AssistantMsg(text) == [role |-> "assistant", content |-> text]

\* Fragments an agent call writes: a bare newline (print's end) or text.
FragLens == {1, 60}
Fragment(g, n) == [src |-> g, len |-> n, blank |-> (n = 1)]
\* The two lines run_with_timeout prints in its stop branch.
StopRequestedLine == [src |-> 0, len |-> 46, blank |-> FALSE]
StillRunningLine == [src |-> 0, len |-> 63, blank |-> FALSE]

RECURSIVE TotalLen(_)
TotalLen(buf) == IF buf = <<>> THEN 0 ELSE Head(buf).len + TotalLen(Tail(buf))

\* str.strip() of the accumulated output is non-empty.
HasText(buf) == \E i \in 1..Len(buf) : ~buf[i].blank

Event(name) == [event |-> name, content |-> <<>>]
Streaming(buf) == [event |-> "agent_streaming", content |-> buf]

\* ------------------------------------------------------------------ state
VARIABLES
  conversations,       \* ChatUI.conversations: session id -> list of messages
  session_timestamps,  \* ChatUI.session_timestamps (its keys)
  stop_events,         \* ChatUI.stop_events: session id -> Event (generation)
  active_threads,      \* ChatUI.active_threads: session id -> thread
  event_set,           \* the flag of each generation's threading.Event
  sys_stdout,          \* the process-wide sys.stdout / sys.stderr
  builtins_print,      \* builtins.print: the suppressed_print wrappers around it
  write_attr,          \* the write attribute of each capture object
  pc,                  \* position of each process_agent_response thread
  session_of,          \* session_id captured by the closure
  original_stdout,     \* original_stdout saved by process_agent_response
  retval,              \* what run_with_timeout returned
  worker,              \* position of each run_in_thread thread
  result,              \* StoppableAgent.result
  error,               \* StoppableAgent.error
  original_write,      \* original_stdout_write saved by run_in_thread
  original_print,      \* original_print saved by run_in_thread
  writes,              \* fragments the agent call has written so far
  elapsed,             \* time.time() - start_time of the wait loop
  capture_stdout,      \* StreamingOutputCapture.original_stdout
  accumulated_output,  \* StreamingOutputCapture.accumulated_output
  interval_passed,     \* time.time() - last_emit_time >= emit_interval
  emitted,             \* events emitted to the room of each generation
  appended,            \* messages each generation appended to the transcript
  order,               \* the generations in the order they were started
  calls,               \* non-empty handle_message calls since the transcript began
  quiet,               \* no stop, timeout, overlap or mid-flight clear so far
  early_stop,          \* a stop request came before the first generation:
                       \* "requested", then "next" while that generation is
                       \* the newest and no stop request has followed
  messages,            \* st.session_state.messages
  message_batches,     \* st.session_state.message_batches
  compress_messages,   \* st.session_state.compress_messages
  added,               \* the messages passed to add_message since the last clear
  page,                \* st.session_state[self.page_key]; 0 while the key is missing
  items_len,           \* len(self.items) of the Paginator built last
  items_per_page,      \* self.items_per_page of the Paginator built last
  cache_entries,       \* st.session_state["cache_..."]: arguments -> (result, timestamp)
  clock,               \* time.time()
  last_call            \* what the last call of the wrapped function did

shared == <<conversations, session_timestamps, stop_events, active_threads,
            event_set>>
streams == <<sys_stdout, builtins_print, write_attr>>
threads == <<pc, session_of, original_stdout, retval>>
agent == <<worker, result, error, original_write, original_print, writes>>
capture == <<capture_stdout, accumulated_output, interval_passed>>
observed == <<emitted, appended, order, calls, quiet, early_stop>>
session_state == <<messages, message_batches, compress_messages, added>>
\* The state of the utilities of sfc_wizard/ui/utils.
paginator == <<page, items_len, items_per_page>>
cache == <<cache_entries, clock, last_call>>
utils == <<session_state, paginator, cache>>
\* The state of the chat server of sfc_wizard/ui.py.
chat == <<shared, streams, threads, agent, elapsed, capture, observed>>
vars == <<chat, utils>>

\* Generations of a session that were started, and those still running.
GensOf(s) == {g \in Gens : pc[g] # "idle" /\ session_of[g] = s}
InFlight(s) == {g \in GensOf(s) : pc[g] # "done"}
Unused == {g \in Gens : pc[g] = "idle"}

\* dict helpers: an empty dict, d[k] = v, del d[k]
EmptyDict == [x \in {} |-> 0]
Put(d, k, v) == [x \in DOMAIN d \cup {k} |-> IF x = k THEN v ELSE d[x]]
Del(d, k) == [x \in DOMAIN d \ {k} |-> d[x]]

\* A write attribute: the capture whose write() runs, behind the wrappers of
\* the generations in via (innermost first).
BoundWrite(c) == [to |-> c, via |-> <<>>]
Range(q) == {q[i] : i \in 1..Len(q)}

Init ==
  /\ conversations = EmptyDict
  /\ session_timestamps = {}
  /\ stop_events = EmptyDict
  /\ active_threads = EmptyDict
  /\ event_set = [g \in Gens |-> FALSE]
  /\ sys_stdout = 0
  /\ builtins_print = <<>>
  /\ write_attr = [g \in Gens |-> BoundWrite(g)]
  /\ pc = [g \in Gens |-> "idle"]
  /\ session_of = [g \in Gens |-> "session_a"]
  /\ original_stdout = [g \in Gens |-> 0]
  /\ retval = [g \in Gens |-> "none"]
  /\ worker = [g \in Gens |-> "none"]
  /\ result = [g \in Gens |-> "None"]
  /\ error = [g \in Gens |-> "None"]
  /\ original_write = [g \in Gens |-> BoundWrite(g)]
  /\ original_print = [g \in Gens |-> <<>>]
  /\ writes = [g \in Gens |-> 0]
  /\ elapsed = [g \in Gens |-> 0]
  /\ capture_stdout = [g \in Gens |-> 0]
  /\ accumulated_output = [g \in Gens |-> <<>>]
  /\ interval_passed = [g \in Gens |-> FALSE]
  /\ emitted = [g \in Gens |-> <<>>]
  /\ appended = [g \in Gens |-> <<>>]
  /\ order = <<>>
  /\ calls = [s \in Sessions |-> 0]
  /\ quiet = [s \in Sessions |-> TRUE]
  /\ early_stop = [s \in Sessions |-> "none"]
  /\ messages = <<>>
  /\ message_batches = <<>>
  /\ compress_messages = FALSE
  /\ added = <<>>
  /\ page = 0
  /\ items_len = 0
  /\ items_per_page = 10
  /\ cache_entries = [x \in {} |-> 0]
  /\ clock = 0
  /\ last_call = [n |-> 0, key |-> "none", invoked |-> FALSE, returned |-> 0,
                  age |-> 0]

\* ------------------------------------------------------- socket handlers
\* handle_register_session with a valid client session id.
HandleRegisterSession(s) ==
  /\ session_timestamps' = session_timestamps \cup {s}
  /\ IF s \notin DOMAIN conversations \/ conversations[s] = <<>>
       THEN conversations' = Put(conversations, s, <<AssistantMsg(WelcomeText)>>)
       ELSE UNCHANGED conversations
  /\ UNCHANGED <<stop_events, active_threads, event_set, streams, threads,
                 agent, elapsed, capture, observed, utils>>

\* A comparison with the commands that does not fold the case.
IsExitCommandExact(user_message) == user_message \in ExitCommands

\* user_message.lower() in ["exit", "quit", "bye"]
IsExitCommand(user_message) == Lower(user_message) \in ExitCommands

\* A handler that starts the transcript anew with every message.
WithUserMessageOnly(s, user_message) == Put(conversations, s, <<UserMsg(user_message)>>)

\* The transcript after the user message is appended (created when missing).
WithUserMessage(s, user_message) ==
  Put(conversations, s,
      Append(IF s \in DOMAIN conversations THEN conversations[s] ELSE <<>>,
             UserMsg(user_message)))

\* A stop request made ahead of the generation would set its flag.
PendingStopFlag(s) == early_stop[s] = "requested"

\* stop_event = threading.Event(): the flag of a new Event.
NewEventFlag(s) == FALSE

\* Finished generations nothing refers to any more: the thread and the worker
\* have ended, the Event is in no registry, the capture is no stream.
Forgotten ==
  {g \in Gens : /\ pc[g] = "done"
                /\ worker[g] \in {"none", "exited"}
                /\ sys_stdout # g
                /\ g \notin Range(builtins_print)
                /\ \A h \in Gens \ {g} :
                     /\ original_stdout[h] # g
                     /\ capture_stdout[h] # g
                     /\ write_attr[h].to # g /\ g \notin Range(write_attr[h].via)
                     /\ original_write[h].to # g /\ g \notin Range(original_write[h].via)
                     /\ g \notin Range(original_print[h])
                /\ \A s \in DOMAIN stop_events : stop_events[s] # g}

\* f with the entries of the forgotten generations as they were at the start.
Forget(f, initial) == [g \in Gens |-> IF g \in Forgotten THEN initial ELSE f[g]]

\* handle_message: the send_message handler, up to thread.start().
HandleMessage(s, m) ==
  LET user_message == Strip(m)
      conv == WithUserMessage(s, user_message)
      free == Unused \cup Forgotten
  IN
  IF user_message = <<>>
    THEN UNCHANGED vars
    ELSE
      /\ calls[s] < MaxCalls
      /\ calls' = [calls EXCEPT ![s] = @ + 1]
      /\ IF IsExitCommand(user_message)
           THEN
             /\ conversations' =
                  [conv EXCEPT ![s] = Append(@, AssistantMsg(GoodbyeText))]
             /\ UNCHANGED <<stop_events, active_threads, event_set, write_attr,
                            threads, worker, writes, capture, emitted, appended,
                            order, quiet, early_stop>>
           ELSE
             /\ free # {}
             /\ LET g == CHOOSE x \in free : \A y \in free : x <= y
                IN /\ conversations' = conv
                   /\ stop_events' = Put(stop_events, s, g)
                   /\ active_threads' = Put(active_threads, s, g)
                   /\ event_set' = [Forget(event_set, FALSE) EXCEPT ![g] = NewEventFlag(s)]
                   /\ pc' = [Forget(pc, "idle") EXCEPT ![g] = "begin"]
                   /\ session_of' = [Forget(session_of, "session_a") EXCEPT ![g] = s]
                   /\ retval' = Forget(retval, "none")
                   /\ worker' = Forget(worker, "none")
                   /\ writes' = Forget(writes, 0)
                   /\ write_attr' = [h \in Gens |->
                        IF h \in Forgotten THEN BoundWrite(h) ELSE write_attr[h]]
                   /\ capture_stdout' = Forget(capture_stdout, 0)
                   /\ accumulated_output' = Forget(accumulated_output, <<>>)
                   /\ interval_passed' = Forget(interval_passed, FALSE)
                   /\ emitted' = Forget(emitted, <<>>)
                   /\ appended' = Forget(appended, <<>>)
                   /\ order' = Append(SelectSeq(order, LAMBDA h : h \notin Forgotten), g)
                   /\ quiet' = [quiet EXCEPT ![s] = @ /\ InFlight(s) = {}]
                   /\ early_stop' = [early_stop EXCEPT ![s] =
                        IF @ = "requested" THEN "next" ELSE "past"]
                   /\ UNCHANGED original_stdout
      /\ UNCHANGED <<session_timestamps, sys_stdout, builtins_print, result, error,
                     original_write, original_print, elapsed, utils>>

\* session_id in self.stop_events
StopAcknowledged(s) == s \in DOMAIN stop_events

\* A stop request that reaches every running generation of the session.
StopTargetsInFlight(s) == InFlight(s)

\* self.stop_events[session_id].set(): the one Event the registry holds.
StopTargets(s) == {stop_events[s]}

\* handle_stop_generation
HandleStop(s) ==
  /\ IF StopAcknowledged(s)
       THEN /\ event_set' = [h \in Gens |-> event_set[h] \/ h \in StopTargets(s)]
            /\ quiet' = [quiet EXCEPT ![s] = FALSE]
       ELSE UNCHANGED <<event_set, quiet>>
  /\ early_stop' = [early_stop EXCEPT ![s] =
       IF @ = "none" THEN "requested" ELSE IF @ = "next" THEN "past" ELSE @]
  /\ UNCHANGED <<conversations, session_timestamps, stop_events, active_threads,
                 streams, threads, agent, elapsed, capture, emitted, appended,
                 order, calls, utils>>

\* A clear that puts the welcome message after the messages it finds.
ClearedKeeping(convs, s) ==
  Put(convs, s, Append(IF s \in DOMAIN convs THEN convs[s] ELSE <<>>,
                       AssistantMsg(WelcomeText)))

\* The transcripts after clear_conversation: a new list for the session, then
\* the welcome message.
Cleared(convs, s) == Put(convs, s, <<AssistantMsg(WelcomeText)>>)

\* handle_clear_conversation for session s.
HandleClear(s) ==
  /\ conversations' = Cleared(conversations, s)
  /\ session_timestamps' = session_timestamps \cup {s}
  /\ calls' = [calls EXCEPT ![s] = 0]
  /\ quiet' = [quiet EXCEPT ![s] = InFlight(s) = {}]
  /\ UNCHANGED <<stop_events, active_threads, event_set, streams, threads,
                 agent, elapsed, capture, emitted, appended, order, early_stop,
                 utils>>

\* ------------------------------------------------ StreamingOutputCapture
\* The captures' state an output call works on.
Captures == [acc |-> accumulated_output, ip |-> interval_passed, em |-> emitted]

\* An emit that does not look at the stop event.
ShouldEmitAnyway(c, buf) == HasText(buf)

\* emit_partial_response's condition.
ShouldEmit(c, buf) == HasText(buf) /\ ~event_set[c]

\* emit_partial_response of capture c holding buf.
EmitPartialResponse(st, c, buf) ==
  IF ShouldEmit(c, buf)
    THEN [st EXCEPT !.acc[c] = <<>>, !.em[c] = Append(@, Streaming(buf))]
    ELSE [st EXCEPT !.acc[c] = buf]

\* A write that emits on the interval only, whatever the size of the buffer.
WriteEmitsOnInterval(passed, buf) == passed

\* A write that emits every time.
WriteEmitsAlways(passed, buf) == TRUE

\* write's test for an immediate emit.
WriteEmits(passed, buf) == passed \/ TotalLen(buf) > SizeThreshold

\* The body of StreamingOutputCapture.write(text) on capture c, before the
\* text is passed on to original_stdout.
WriteBody(st, c, f) ==
  IF f.blank THEN st
  ELSE LET buf == Append(st.acc[c], f)
       IN IF WriteEmits(st.ip[c], buf)
            THEN [EmitPartialResponse(st, c, buf) EXCEPT !.ip[c] = FALSE]
            ELSE [st EXCEPT !.acc[c] = buf]

\* StreamingOutputCapture.flush()
Flush(st, c) ==
  IF HasText(st.acc[c]) THEN EmitPartialResponse(st, c, st.acc[c]) ELSE st

\* A wrapper installed by run_in_thread drops the text: the stop event of one
\* of the wrapping generations is set.
Suppressed(via) == \E i \in 1..Len(via) : event_set[via[i]]

\* stream.write(text): the real stream (0), or a capture through its write
\* attribute; a capture passes the text on to its original_stdout.
RECURSIVE StreamWrite(_, _, _, _)
StreamWrite(st, stream, f, depth) ==
  IF stream = 0 \/ depth = 0 \/ Suppressed(write_attr[stream].via) THEN st
  ELSE LET c == write_attr[stream].to
       IN StreamWrite(WriteBody(st, c, f), capture_stdout[c], f, depth - 1)

\* print(text) through builtins.print.
PrintLine(st, f) ==
  IF Suppressed(builtins_print) THEN st
  ELSE StreamWrite(st, sys_stdout, f, MaxGens + 1)

\* The captures after an output call.
Output(st) ==
  /\ accumulated_output' = st.acc
  /\ interval_passed' = st.ip
  /\ emitted' = st.em

\* --------------------------------------------------------- StoppableAgent
\* self.completed: set as run_in_thread ends.
completed(g) == worker[g] = "exited"

\* run_with_timeout is still waiting on this StoppableAgent.
Supervised(g) == pc[g] \in {"poll", "stop_wait"}

\* The except and finally clauses of run_in_thread after an exception.
Raised(g) ==
  /\ IF ~Supervised(g) THEN UNCHANGED <<result, error>>
     ELSE IF event_set[g]
       THEN result' = [result EXCEPT ![g] = "stopped"] /\ UNCHANGED error
       ELSE error' = [error EXCEPT ![g] = "e"] /\ UNCHANGED result
  /\ worker' = [worker EXCEPT ![g] = "exited"]

\* run_in_thread up to the call of the agent: the patches are applied.  The
\* write attribute of the real stream is read-only.
WorkerPatch(g) ==
  /\ worker[g] = "started"
  /\ IF sys_stdout = 0
       THEN /\ Raised(g)
            /\ UNCHANGED <<builtins_print, write_attr, original_write, original_print>>
       ELSE /\ original_write' = [original_write EXCEPT ![g] = write_attr[sys_stdout]]
            /\ original_print' = [original_print EXCEPT ![g] = builtins_print]
            /\ write_attr' = [write_attr EXCEPT ![sys_stdout].via = Append(@, g)]
            /\ builtins_print' = Append(builtins_print, g)
            /\ worker' = [worker EXCEPT ![g] = "agent"]
            /\ UNCHANGED <<result, error>>
  /\ UNCHANGED <<shared, sys_stdout, threads, writes, elapsed, capture, observed,
                 utils>>

OutputCalls == {"print", "write"}

\* The agent call prints a fragment or writes it to sys.stdout, as one of at
\* most limit output calls.
AgentWriteUpTo(g, n, how, limit) ==
  /\ worker[g] = "agent"
  /\ writes[g] < limit
  /\ writes' = [writes EXCEPT ![g] = @ + 1]
  /\ Output(IF how = "print" THEN PrintLine(Captures, Fragment(g, n))
            ELSE StreamWrite(Captures, sys_stdout, Fragment(g, n), MaxGens + 1))
  /\ UNCHANGED <<shared, streams, threads, worker, result, error, original_write,
                 original_print, elapsed, capture_stdout, appended, order, calls,
                 quiet, early_stop, utils>>

AgentWrite(g, n, how) == AgentWriteUpTo(g, n, how, MaxWrites)

AgentOutcomes == {"response", "empty", "raise"}

\* run_in_thread from the return (or raise) of self.agent(message) to its end.
\* Once run_with_timeout has returned nothing reads the slots any more.
AgentReturn(g, outcome) ==
  /\ worker[g] = "agent"
  /\ IF sys_stdout = 0
       THEN /\ Raised(g)
            /\ UNCHANGED <<builtins_print, write_attr>>
       ELSE /\ write_attr' = [write_attr EXCEPT ![sys_stdout] = original_write[g]]
            /\ builtins_print' = original_print[g]
            /\ IF outcome = "raise" THEN Raised(g)
               ELSE /\ worker' = [worker EXCEPT ![g] = "exited"]
                    /\ UNCHANGED error
                    /\ IF ~Supervised(g) THEN UNCHANGED result
                       ELSE result' = [result EXCEPT ![g] =
                              IF event_set[g] THEN "stopped" ELSE outcome]
  /\ original_write' = [original_write EXCEPT ![g] = BoundWrite(g)]
  /\ original_print' = [original_print EXCEPT ![g] = <<>>]
  /\ UNCHANGED <<shared, sys_stdout, threads, writes, elapsed, capture, observed,
                 utils>>

\* run_with_timeout's "Return result" part.
ReturnValue(err, res) ==
  IF err # "None" THEN "error"
  ELSE IF res \in {"response", "stopped"} THEN res
  ELSE "noresponse"

\* The wait loop with the checks in the order cancellation, timeout, completion.
PollBranchStopFirst(alive, done, stop, passed) ==
  IF stop THEN "stop"
  ELSE IF passed > timeout THEN "timeout"
  ELSE IF ~(alive /\ ~done) THEN "exit"
  ELSE "sleep"

\* The wait loop with the comparison against the deadline the wrong way round.
PollBranchInverted(alive, done, stop, passed) ==
  IF ~(alive /\ ~done) THEN "exit"
  ELSE IF stop THEN "stop"
  ELSE IF passed < timeout THEN "timeout"
  ELSE "sleep"

\* The wait loop without a deadline.
PollBranchNoDeadline(alive, done, stop, passed) ==
  IF ~(alive /\ ~done) THEN "exit"
  ELSE IF stop THEN "stop"
  ELSE "sleep"

\* One iteration of run_with_timeout's wait loop: which branch it takes.
PollBranch(alive, done, stop, passed) ==
  IF ~(alive /\ ~done) THEN "exit"
  ELSE IF stop THEN "stop"
  ELSE IF passed > timeout THEN "timeout"
  ELSE "sleep"

\* The text run_with_timeout returns.
ReturnText(kind) ==
  CASE kind = "stopped" -> StoppedText
    [] kind = "timeout" -> TimedOutText
    [] kind = "error" -> ErrorText
    [] kind = "response" -> ResultText
    [] OTHER -> NoResponseText

\* ------------------------------------------------ process_agent_response
Emit(g, names) == [emitted EXCEPT ![g] = @ \o [i \in 1..Len(names) |-> Event(names[i])]]

\* From the start of the thread to the start of the wait loop.
Begin(g) ==
  /\ pc[g] = "begin"
  /\ capture_stdout' = [capture_stdout EXCEPT ![g] = sys_stdout]
  /\ accumulated_output' = [accumulated_output EXCEPT ![g] = <<>>]
  /\ interval_passed' = [interval_passed EXCEPT ![g] = FALSE]
  /\ IF event_set[g]
       THEN /\ emitted' = Emit(g, <<"agent_typing_true", "agent_streaming_start",
                                    "generation_stopped">>)
            /\ pc' = [pc EXCEPT ![g] = "cleanup"]
            /\ UNCHANGED <<sys_stdout, original_stdout, worker, elapsed>>
       ELSE /\ emitted' = Emit(g, <<"agent_typing_true", "agent_streaming_start">>)
            /\ original_stdout' = [original_stdout EXCEPT ![g] = sys_stdout]
            /\ sys_stdout' = g
            /\ worker' = [worker EXCEPT ![g] = "started"]
            /\ elapsed' = [elapsed EXCEPT ![g] = 0]
            /\ pc' = [pc EXCEPT ![g] = "poll"]
  /\ UNCHANGED <<shared, builtins_print, write_attr, session_of, retval, result,
                 error, original_write, original_print, writes, appended, order,
                 calls, quiet, early_stop, utils>>

\* run_with_timeout returns kind: the StoppableAgent goes with it.
Return(g, kind) ==
  /\ retval' = [retval EXCEPT ![g] = kind]
  /\ result' = [result EXCEPT ![g] = "None"]
  /\ error' = [error EXCEPT ![g] = "None"]
  /\ pc' = [pc EXCEPT ![g] = "post_check"]

\* One poll of the wait loop that leaves the loop body.
Poll(g) ==
  LET branch == PollBranch(worker[g] # "exited", completed(g), event_set[g], elapsed[g])
  IN
  /\ pc[g] = "poll"
  /\ branch # "sleep"
  /\ IF branch = "stop"
       THEN /\ pc' = [pc EXCEPT ![g] = "stop_wait"]
            /\ Output(PrintLine(Captures, StopRequestedLine))
            /\ UNCHANGED <<retval, result, error, quiet>>
       ELSE /\ Return(g, IF branch = "timeout" THEN "timeout"
                         ELSE ReturnValue(error[g], result[g]))
            /\ quiet' = [quiet EXCEPT ![session_of[g]] = @ /\ branch # "timeout"]
            /\ UNCHANGED <<accumulated_output, interval_passed, emitted>>
  /\ UNCHANGED <<shared, streams, session_of, original_stdout, worker,
                 original_write, original_print, writes, elapsed, capture_stdout,
                 appended, order, calls, early_stop, utils>>

\* After time.sleep(1.0) in the stop branch.
StopWait(g) ==
  /\ pc[g] = "stop_wait"
  /\ IF worker[g] # "exited"
       THEN /\ Output(PrintLine(Captures, StillRunningLine))
            /\ Return(g, "stopped")
       ELSE /\ Return(g, ReturnValue(error[g], result[g]))
            /\ UNCHANGED <<accumulated_output, interval_passed, emitted>>
  /\ UNCHANGED <<shared, streams, session_of, original_stdout, worker,
                 original_write, original_print, writes, elapsed, capture_stdout,
                 appended, order, calls, quiet, early_stop, utils>>

\* After run_with_timeout returned: the stop check, the flush, the restore.
PostCheck(g) ==
  /\ pc[g] = "post_check"
  /\ IF event_set[g]
       THEN /\ emitted' = Emit(g, <<"generation_stopped">>)
            /\ pc' = [pc EXCEPT ![g] = "cleanup"]
            /\ UNCHANGED <<accumulated_output, interval_passed>>
       ELSE /\ Output(Flush(Captures, g))
            /\ pc' = [pc EXCEPT ![g] = "final_check"]
  /\ sys_stdout' = original_stdout[g]
  /\ original_stdout' = [original_stdout EXCEPT ![g] = 0]
  /\ elapsed' = [elapsed EXCEPT ![g] = 0]
  /\ UNCHANGED <<shared, builtins_print, write_attr, session_of, retval, agent,
                 capture_stdout, appended, order, calls, quiet, early_stop,
                 utils>>

\* A controller that also drops the response of a timed-out wait.
ProceedUnlessTimedOut(g) == ~event_set[g] /\ retval[g] # "timeout"

\* "Only proceed with response if not stopped"
ProceedWithResponse(g) == ~event_set[g]

FinalCheck(g) ==
  /\ pc[g] = "final_check"
  /\ pc' = [pc EXCEPT ![g] = IF ProceedWithResponse(g) THEN "append" ELSE "cleanup"]
  /\ UNCHANGED <<shared, streams, session_of, original_stdout, retval, agent,
                 elapsed, capture, observed, utils>>

\* agent_streaming_end, then the response is added to the conversation history.
AppendResponse(g) ==
  LET s == session_of[g]
      agent_msg == AssistantMsg(ReturnText(retval[g]))
  IN
  /\ pc[g] = "append"
  /\ emitted' = Emit(g, <<"agent_streaming_end">>)
  /\ conversations' = [conversations EXCEPT ![s] = Append(@, agent_msg)]
  /\ appended' = [appended EXCEPT ![g] = Append(@, agent_msg)]
  /\ pc' = [pc EXCEPT ![g] = "cleanup"]
  /\ UNCHANGED <<session_timestamps, stop_events, active_threads, event_set,
                 streams, session_of, original_stdout, retval, agent, elapsed,
                 capture, order, calls, quiet, early_stop, utils>>

\* A finally block that leaves the registry as it is.
CleanupKeepsStopEvents(g) == stop_events

\* stop_events after the finally block of generation g.
CleanupStopEvents(g) ==
  IF session_of[g] \in DOMAIN stop_events THEN Del(stop_events, session_of[g])
  ELSE stop_events

\* The capture of generation g, a local of process_agent_response, is no
\* stream any more: nothing can write to it after the function has ended.
Unreferenced(g) ==
  /\ sys_stdout # g
  /\ \A h \in Gens \ {g} : /\ original_stdout[h] # g
                            /\ capture_stdout[h] # g
                            /\ write_attr[h].to # g
                            /\ original_write[h].to # g

\* The finally block: session tracking is cleaned up, typing stops.
Cleanup(g) ==
  /\ pc[g] = "cleanup"
  /\ stop_events' = CleanupStopEvents(g)
  /\ active_threads' = Del(active_threads, session_of[g])
  /\ emitted' = Emit(g, <<"agent_typing_false">>)
  /\ pc' = [pc EXCEPT ![g] = "done"]
  /\ IF Unreferenced(g)
       THEN /\ accumulated_output' = [accumulated_output EXCEPT ![g] = <<>>]
            /\ interval_passed' = [interval_passed EXCEPT ![g] = FALSE]
       ELSE UNCHANGED <<accumulated_output, interval_passed>>
  /\ UNCHANGED <<conversations, session_timestamps, event_set, streams,
                 session_of, original_stdout, retval, agent, elapsed,
                 capture_stdout, appended, order, calls, quiet, early_stop,
                 utils>>

\* ------------------------------------------------------------------ time
Min(a, b) == IF a < b THEN a ELSE b

\* TickSeconds pass on the wall clock.
Tick ==
  /\ \E g \in Gens : Supervised(g) /\ elapsed[g] <= timeout
  /\ elapsed' = [g \in Gens |->
       IF Supervised(g) THEN Min(elapsed[g] + TickSeconds, timeout + TickSeconds)
       ELSE elapsed[g]]
  /\ interval_passed' = [g \in Gens |->
       interval_passed[g] \/ pc[g] \in {"poll", "stop_wait", "post_check"}]
  /\ UNCHANGED <<shared, streams, threads, agent, capture_stdout,
                 accumulated_output, observed, utils>>

\* ---------------------------------------------------------- specifications
\* Agent calls that have not returned.
Running == {g \in Gens : worker[g] \in {"started", "agent"}}

\* A patient client: it sends its next message after the previous generation
\* of its session ended.
SendMessage(s, m) ==
  /\ InFlight(s) = {}
  /\ Cardinality(Running) <= MaxWorkers
  /\ HandleMessage(s, m)

Next ==
  \/ \E s \in Clients : HandleRegisterSession(s)
  \/ \E s \in Clients, m \in Inputs : SendMessage(s, m)
  \/ \E s \in Clients : HandleStop(s)
  \/ \E s \in Clients : HandleClear(s)
  \/ \E g \in Gens : Begin(g)
  \/ \E g \in Gens : Poll(g)
  \/ \E g \in Gens : StopWait(g)
  \/ \E g \in Gens : PostCheck(g)
  \/ \E g \in Gens : FinalCheck(g)
  \/ \E g \in Gens : AppendResponse(g)
  \/ \E g \in Gens : Cleanup(g)
  \/ \E g \in Gens : WorkerPatch(g)
  \/ \E g \in Gens, n \in FragLens, how \in OutputCalls : AgentWrite(g, n, how)
  \/ \E g \in Gens, o \in AgentOutcomes : AgentReturn(g, o)
  \/ Tick

Spec == Init /\ [][Next]_vars

\* An impatient client: messages and stop requests arrive while generations of
\* the session are running; the agent answers.
RaceNext ==
  \/ \E s \in Clients : HandleMessage(s, <<"h", "i">>)
  \/ \E s \in Clients : HandleStop(s)
  \/ \E g \in Gens : Begin(g)
  \/ \E g \in Gens : Poll(g)
  \/ \E g \in Gens : StopWait(g)
  \/ \E g \in Gens : PostCheck(g)
  \/ \E g \in Gens : FinalCheck(g)
  \/ \E g \in Gens : AppendResponse(g)
  \/ \E g \in Gens : Cleanup(g)
  \/ \E g \in Gens : WorkerPatch(g)
  \/ \E g \in Gens : AgentReturn(g, "response")

RaceSpec == Init /\ [][RaceNext]_vars

\* A client whose agent calls may hang: the controller threads, the worker's
\* patching and the clock keep running; nothing makes the agent return or the
\* client act.
LiveNext ==
  \/ \E s \in Clients : SendMessage(s, <<"h", "i">>)
  \/ \E s \in Clients : HandleStop(s)
  \/ \E g \in Gens : Begin(g)
  \/ \E g \in Gens : Poll(g)
  \/ \E g \in Gens : StopWait(g)
  \/ \E g \in Gens : PostCheck(g)
  \/ \E g \in Gens : FinalCheck(g)
  \/ \E g \in Gens : AppendResponse(g)
  \/ \E g \in Gens : Cleanup(g)
  \/ \E g \in Gens : WorkerPatch(g)
  \/ \E g \in Gens : AgentReturn(g, "response")
  \/ Tick

LiveSpec ==
  /\ Init
  /\ [][LiveNext]_vars
  /\ \A g \in Gens :
       /\ WF_vars(Begin(g)) /\ WF_vars(Poll(g)) /\ WF_vars(StopWait(g))
       /\ WF_vars(PostCheck(g)) /\ WF_vars(FinalCheck(g))
       /\ WF_vars(AppendResponse(g)) /\ WF_vars(Cleanup(g))
  /\ WF_vars(Tick)

\* Fragments of an agent call whose output is followed: two or three of them
\* cross the size threshold.
StreamLens == {1, 40, 60}

\* One patient client that never asks to stop, and an agent that writes
\* several fragments and answers.
StreamNext ==
  \/ \E s \in Clients : SendMessage(s, <<"h", "i">>)
  \/ \E g \in Gens : Begin(g)
  \/ \E g \in Gens : Poll(g)
  \/ \E g \in Gens : PostCheck(g)
  \/ \E g \in Gens : FinalCheck(g)
  \/ \E g \in Gens : AppendResponse(g)
  \/ \E g \in Gens : Cleanup(g)
  \/ \E g \in Gens : WorkerPatch(g)
  \/ \E g \in Gens, n \in StreamLens, how \in OutputCalls :
       AgentWriteUpTo(g, n, how, MaxStreamWrites)
  \/ \E g \in Gens : AgentReturn(g, "response")
  \/ Tick

StreamSpec == Init /\ [][StreamNext]_vars

\* ------------------------------------------------------------- properties
EventNames(g) == {emitted[g][i].event : i \in 1..Len(emitted[g])}
Cancelled(g) == "generation_stopped" \in EventNames(g)
Ended(g) == pc[g] \in {"cleanup", "done"}

\* C1: when a generation finishes, the stop_events entry of its session is
\* removed only if it still holds that generation's own event; the entry of a
\* newer generation of the session is left alone.
C1_CleanupKeepsNewerEvent ==
  [][\A g \in Gens :
       (/\ pc[g] = "cleanup" /\ pc'[g] = "done"
        /\ session_of[g] \in DOMAIN stop_events
        /\ stop_events[session_of[g]] # g)
       => /\ session_of[g] \in DOMAIN stop_events'
          /\ stop_events'[session_of[g]] = stop_events[session_of[g]]]_vars

\* C2: a generation whose stop event has been set by an acknowledged stop
\* request appends no assistant message to the transcript afterwards.
C2_NoAppendAfterStop ==
  [][\A g \in Gens :
       event_set[g] => Len(appended'[g]) <= Len(appended[g])]_vars

TurnsAlternate(conv, skip, n) ==
  \A i \in 1..n : /\ conv[skip + 2 * i - 1].role = "user"
                  /\ conv[skip + 2 * i].role = "assistant"

\* The session has had no stop, timeout, overlap or mid-flight clear, and none
\* of its generations is running.
Settled(s) == s \in DOMAIN conversations /\ quiet[s] /\ InFlight(s) = {}

\* C4 as stated: after N successful non-empty handle_message calls the
\* transcript holds exactly 2N messages, N user and N assistant, alternating.
C4_TranscriptIsTwoPerCall ==
  \A s \in Sessions :
    Settled(s) => /\ Len(conversations[s]) = 2 * calls[s]
                  /\ TurnsAlternate(conversations[s], 0, calls[s])

\* The welcome message register_session and clear_conversation put first.
Welcomes(conv) ==
  IF conv # <<>> /\ conv[1] = AssistantMsg(WelcomeText) THEN 1 ELSE 0

\* C4 amended: after N successful non-empty handle_message calls the
\* transcript holds the welcome message, if register_session or
\* clear_conversation began it, followed by exactly 2N messages, N user and N
\* assistant, alternating and starting with a user message.
C4_TranscriptIsWelcomePlusTwoPerCall ==
  \A s \in Sessions :
    Settled(s) =>
      LET conv == conversations[s]
      IN /\ Len(conv) = Welcomes(conv) + 2 * calls[s]
         /\ TurnsAlternate(conv, Welcomes(conv), calls[s])

C4_TwoTurnsAfterWelcome ==
  \E s \in Sessions :
    /\ Settled(s) /\ calls[s] = 2 /\ Len(conversations[s]) = 5
    /\ conversations[s][3] = AssistantMsg(ResultText)
    /\ conversations[s][5] = AssistantMsg(ResultText)

\* C5 as stated: a stop request made before any generation has begun takes
\* effect on the very next generation, which finds its token signalled at its
\* first poll, is cancelled at once and gains no assistant message.
C5_EarlyStopCancelsNextGeneration ==
  \A s \in Sessions : \A g \in GensOf(s) :
    (early_stop[s] = "next" /\ pc[g] # "begin")
      => /\ Ended(g) /\ Cancelled(g)
         /\ worker[g] = "none" /\ appended[g] = <<>>

\* C5 amended: a stop request made before any generation has begun is
\* rejected and registers nothing; the very next generation starts with an
\* event that is not set and, until a stop request is made after it began, is
\* not cancelled; it ends with one assistant message appended.
C5_EarlyStopIsDropped ==
  \A s \in Sessions :
    /\ early_stop[s] = "requested" => ~StopAcknowledged(s)
    /\ early_stop[s] = "next" =>
         \A g \in GensOf(s) :
           /\ ~event_set[g] /\ ~Cancelled(g)
           /\ pc[g] = "done" => Len(appended[g]) = 1

C5_NextGenerationAnswers ==
  \E s \in Sessions : \E g \in GensOf(s) :
    /\ early_stop[s] = "next" /\ pc[g] = "done"
    /\ appended[g] = <<AssistantMsg(ResultText)>>

\* The most recently started generation of s that is still running.
Newest(s) ==
  LET running == SelectSeq(order, LAMBDA g : g \in InFlight(s))
  IN running[Len(running)]

\* C6: a stop request that arrives while a generation of the session is
\* running is acknowledged and reaches the event of the most recently started
\* running generation; it is rejected only when none is running.
C6_StopReachesNewestRunning ==
  \A s \in Sessions :
    /\ InFlight(s) # {} => StopAcknowledged(s) /\ stop_events[s] = Newest(s)
    /\ InFlight(s) = {} => ~StopAcknowledged(s)

\* A poll of generation g leaves the wait loop or enters its stop branch.
LeavesPoll(g) == pc[g] = "poll" /\ pc'[g] # "poll"

\* C7 as stated: each poll checks cancellation, then timeout, then
\* completion: a set token never ends the wait as timed out, and with the
\* deadline elapsed and the token not set the wait ends timed out even when
\* the worker has completed.
C7_StopThenTimeoutThenCompletion ==
  [][\A g \in Gens : LeavesPoll(g) =>
       /\ event_set[g] => retval'[g] # "timeout"
       /\ (~event_set[g] /\ elapsed[g] > timeout) => retval'[g] = "timeout"]_vars

\* C7 amended: each poll checks completion, then cancellation, then timeout:
\* a completed worker ends the wait with its result even when the deadline has
\* elapsed; a set token and a worker that has not completed lead to the stop
\* branch even when the deadline has elapsed; the wait times out only when
\* the worker has not completed and the token is not set.  A token found set
\* after the wait ends the generation as cancelled.
C7_CompletionThenStopThenTimeout ==
  [][\A g \in Gens :
       /\ LeavesPoll(g) =>
            /\ completed(g) => /\ pc'[g] = "post_check"
                               /\ retval'[g] = ReturnValue(error[g], result[g])
            /\ (~completed(g) /\ event_set[g]) => pc'[g] = "stop_wait"
            /\ retval'[g] = "timeout" =>
                 ~completed(g) /\ ~event_set[g] /\ elapsed[g] > timeout
       /\ (pc[g] = "post_check" /\ event_set[g] /\ pc'[g] # "post_check") =>
            pc'[g] = "cleanup" /\ Cancelled(g)' /\ appended'[g] = <<>>]_vars

C7_CompletedPastDeadline ==
  \E g \in Gens :
    /\ pc[g] = "post_check" /\ elapsed[g] > timeout
    /\ retval[g] = "response" /\ ~event_set[g]

\* C8: a generation times out only when the deadline has elapsed since its
\* wait began, never before.
C8_TimeoutNotBeforeDeadline ==
  \A g \in Gens :
    (pc[g] = "post_check" /\ retval[g] = "timeout") => elapsed[g] >= timeout

C8_TimedOutAfterDeadline ==
  \E g \in Gens :
    pc[g] = "post_check" /\ retval[g] = "timeout" /\ elapsed[g] > timeout

\* C9: every generation that reaches the wait loop ends, even if its agent
\* call never returns; one that ends with its worker still running and its
\* token not set has timed out.
C9_GenerationEnds ==
  /\ \A g \in Gens : (pc[g] = "poll") ~> (pc[g] = "done")
  /\ [](\A g \in Gens :
         (Ended(g) /\ worker[g] \in {"started", "agent"} /\ ~event_set[g])
           => retval[g] = "timeout")

C9_EndedWithWorkerRunning ==
  \E g \in Gens :
    /\ pc[g] = "done" /\ retval[g] = "timeout"
    /\ worker[g] \in {"started", "agent"}

\* The agent_streaming events emitted to the room of generation c.
StreamingCount(c) ==
  Cardinality({i \in 1..Len(emitted[c]) : emitted[c][i].event = "agent_streaming"})

\* C10: once the stop event of a generation is set, no write or flush of its
\* capture emits an agent_streaming event.
C10_NoStreamingAfterStop ==
  [][\A c \in Gens :
       event_set[c] => StreamingCount(c)' <= StreamingCount(c)]_vars

C10_WriteHeldBackAfterStop ==
  \E c \in Gens :
    /\ event_set[c]
    /\ accumulated_output[c] = <<StopRequestedLine, StillRunningLine>>
    /\ StreamingCount(c) = 0

\* C11: after a flush, by flush() or triggered by a write, the buffer of the
\* capture is empty, whether the buffer was emitted or the emit was held back
\* because the stop event was set: no write that triggers a flush leaves its
\* fragment in the buffer.
C11_BufferEmptyAfterFlush ==
  [][\A c \in Gens :
       Len(accumulated_output'[c]) > Len(accumulated_output[c])
         => ~WriteEmits(interval_passed[c], accumulated_output'[c])]_vars

\* The payload of the newest event emitted to the room of generation c.
LastPayload(c) == emitted[c][Len(emitted[c])].content

\* A step emits one agent_streaming event to the room of c: it carries the
\* buffer, with the fragment just written if a write emits it, and leaves the
\* buffer empty.
EmitsWholeBuffer(c) ==
  /\ Len(emitted'[c]) = Len(emitted[c]) + 1
  /\ SubSeq(emitted'[c], 1, Len(emitted[c])) = emitted[c]
  /\ LET payload == LastPayload(c)'
         held == Len(accumulated_output[c])
     IN /\ Len(payload) \in {held, held + 1}
        /\ SubSeq(payload, 1, held) = accumulated_output[c]
  /\ accumulated_output'[c] = <<>>

\* C12: with the stop event not set, a write that makes the buffer exceed
\* the size threshold does not leave its fragment in the buffer: it emits one
\* agent_streaming event at that write, which carries the whole buffer, and
\* the buffer is empty afterwards.
C12_WriteOverThresholdEmits ==
  [][\A c \in Gens : ~event_set[c] =>
       /\ Len(accumulated_output'[c]) > Len(accumulated_output[c])
            => TotalLen(accumulated_output'[c]) <= SizeThreshold
       /\ StreamingCount(c)' > StreamingCount(c) => EmitsWholeBuffer(c)]_vars

C12_EmittedOnSize ==
  \E c \in Gens :
    /\ pc[c] = "poll" /\ elapsed[c] = 0 /\ accumulated_output[c] = <<>>
    /\ StreamingCount(c) = 1
    /\ LastPayload(c) = <<Fragment(c, 60), Fragment(c, 60)>>

C14_EveryFragmentIsKept ==
  [][\A g \in Gens :
       (writes'[g] = writes[g] + 1 /\ sys_stdout = g /\ ~event_set[g])
         => \/ Len(accumulated_output'[g]) = Len(accumulated_output[g]) + 1
            \/ StreamingCount(g)' = StreamingCount(g) + 1]_vars

\* C15: clear_conversation is idempotent on the transcript: with no
\* generation in flight, the transcript holds exactly one welcome message after
\* a clear, whatever it held before, and after a second clear in a row.
C15_ClearIsIdempotent ==
  /\ [](\A s \in Clients :
          LET once == Cleared(conversations, s)
          IN /\ once[s] = <<AssistantMsg(WelcomeText)>>
             /\ Cleared(once, s) = once)
  /\ [][\A s \in Sessions :
          (calls[s] > 0 /\ calls'[s] = 0)
            => conversations'[s] = <<AssistantMsg(WelcomeText)>>]_vars

C15_ClearedAfterTurns ==
  \E s \in Sessions : \E g \in GensOf(s) :
    /\ InFlight(s) = {} /\ appended[g] # <<>> /\ calls[s] = 0
    /\ conversations[s] = <<AssistantMsg(WelcomeText)>>

\* C16: a send_message whose text, trimmed and lower-cased, is exit, quit or
\* bye adds exactly the user message and the farewell message to the
\* transcript, registers no stop event and no thread, and starts no
\* generation and no worker.
C16_ExitCommandBypassesAgent ==
  [][\A s \in Sessions :
       LET old == IF s \in DOMAIN conversations THEN conversations[s] ELSE <<>>
       IN (/\ calls'[s] = calls[s] + 1
           /\ Len(conversations'[s]) > Len(old)
           /\ Lower(conversations'[s][Len(old) + 1].content) \in ExitCommands)
          => /\ conversations'[s] =
                  old \o << UserMsg(conversations'[s][Len(old) + 1].content),
                            AssistantMsg(GoodbyeText) >>
             /\ UNCHANGED <<stop_events, active_threads, event_set, pc,
                            session_of, worker, order>>]_vars

C16_FarewellAfterMixedCaseExit ==
  \E s \in Sessions :
    /\ s \in DOMAIN conversations
    /\ Len(conversations[s]) >= 2
    /\ conversations[s][Len(conversations[s]) - 1] = UserMsg(<<"E","x","i","t">>)
    /\ conversations[s][Len(conversations[s])] = AssistantMsg(GoodbyeText)
    /\ calls[s] = 1
    /\ GensOf(s) = {}
    /\ s \notin DOMAIN stop_events

\* C17: a generation whose agent call raised, with no stop request and no
\* timeout, has sent the client an agent_response event and has added exactly
\* one assistant message with the error text to the transcript.
C17_AgentErrorReachesClient ==
  \A g \in Gens :
    (pc[g] = "done" /\ retval[g] = "error" /\ ~event_set[g])
      => /\ "agent_response" \in EventNames(g)
         /\ appended[g] = <<AssistantMsg(ErrorText)>>

\* C18: a finished generation has emitted exactly one terminal notification,
\* and it is the one of its final state: generation_stopped when it was
\* stopped or timed out, agent_response when it completed or failed.
C18_OneTerminalNotification ==
  \A g \in Gens :
    pc[g] = "done" =>
      LET stopped == Len(SelectSeq(emitted[g], LAMBDA e : e.event = "generation_stopped"))
          answered == Len(SelectSeq(emitted[g], LAMBDA e : e.event = "agent_response"))
      IN /\ stopped + answered = 1
         /\ (event_set[g] \/ retval[g] = "timeout") <=> stopped = 1

\* A client that waits for the end of a generation before its next message,
\* while the agent call of an earlier generation may still be running.
AbandonNext ==
  \/ \E s \in Clients : InFlight(s) = {} /\ HandleMessage(s, <<"h", "i">>)
  \/ \E g \in Gens : Begin(g)
  \/ \E g \in Gens : Poll(g)
  \/ \E g \in Gens : PostCheck(g)
  \/ \E g \in Gens : FinalCheck(g)
  \/ \E g \in Gens : AppendResponse(g)
  \/ \E g \in Gens : Cleanup(g)
  \/ \E g \in Gens : WorkerPatch(g)
  \/ \E g \in Gens, how \in OutputCalls : AgentWrite(g, 60, how)
  \/ \E g \in Gens : AgentReturn(g, "response")
  \/ Tick

AbandonSpec == Init /\ [][AbandonNext]_vars

\* C19: after a generation has ended, a step of its worker (an output call or
\* the return of the agent) sends the client no event and changes no
\* transcript.
C19_EndedWorkerIsSilent ==
  [][\A g \in Gens :
       (/\ pc[g] = "done" /\ g \in Running
        /\ (worker'[g] # worker[g] \/ writes'[g] > writes[g]))
       => UNCHANGED <<emitted, conversations>>]_vars

\* C20: at every moment at most one generation of a session is in flight
\* (started and not ended), whatever the order of the send_message requests.
C20_OneGenerationInFlight ==
  \A s \in Sessions : Cardinality(InFlight(s)) <= 1

\* C21: a generation that has ended, whatever its outcome, has sent
\* agent_typing false to its client, and its own stop event is registered for
\* no session.
C21_EndedGenerationIsCleanedUp ==
  \A g \in Gens :
    pc[g] = "done" =>
      /\ "agent_typing_false" \in EventNames(g)
      /\ \A s \in DOMAIN stop_events : stop_events[s] # g

C21_StoppedBeforeStartingCleanedUp ==
  \E g \in Gens :
    /\ pc[g] = "done" /\ retval[g] = "none" /\ Cancelled(g)
    /\ emitted[g][Len(emitted[g])].event = "agent_typing_false"
    /\ session_of[g] \notin DOMAIN stop_events

\* C22: every session that has a transcript in conversations has a
\* last-activity entry in session_timestamps.
C22_EveryConversationIsStamped ==
  DOMAIN conversations \subseteq session_timestamps

\* C23: a send_message that starts a generation registers that generation's
\* new, unset stop event for the session and leaves the events of the
\* session's running generations as they were; the event of a running
\* generation changes only by being set while it is the registered one.
C23_StopSetsOnlyRegisteredEvent ==
  [][\A g \in Gens :
       /\ (pc[g] \in {"idle", "done"} /\ pc'[g] = "begin")
            => /\ stop_events'[session_of'[g]] = g
               /\ ~event_set'[g]
               /\ \A h \in InFlight(session_of'[g]) : event_set'[h] = event_set[h]
       /\ (pc[g] \notin {"idle", "done"} /\ event_set'[g] # event_set[g])
            => /\ session_of[g] \in DOMAIN stop_events
               /\ stop_events[session_of[g]] = g
               /\ event_set'[g]]_vars

C23_OlderEventStaysUnset ==
  \E s \in Sessions : \E g, h \in InFlight(s) :
    /\ g # h
    /\ s \in DOMAIN stop_events /\ stop_events[s] = g
    /\ event_set[g] /\ ~event_set[h]
    /\ worker[h] = "agent"


\* ------------------------------------------- ui/utils/session.py
\* Number of add_message calls between two clear_conversation calls.
MaxAdds == 73
\* Number of messages over the compression size among them.
MaxLong == 1

\* len(st.session_state.messages) > 50
BatchThreshold == 50
\* st.session_state.messages[-30:]
KeepRecent == 30
\* len(content) > 10000
CompressOver == 10000

\* The contents a caller passes: a text by its length.  Attachments are empty.
Contents == {5, 10001}
Plain(n) == [len |-> n, packed |-> FALSE]

\* The message object add_message builds; the id stands for the uuid.
NewMessage(n) ==
  [id |-> Len(added) + 1, content |-> Plain(n), compressed |-> FALSE]

\* _compress_message: the content is packed when it is long, the flag is set.
CompressMessage(message) ==
  [message EXCEPT !.content = IF @.len > CompressOver
                               THEN [len |-> @.len, packed |-> TRUE] ELSE @,
                  !.compressed = TRUE]

\* _decompress_message: a flagged message is unpacked and the flag removed.
DecompressMessage(message) ==
  IF ~message.compressed THEN message
  ELSE [message EXCEPT !.content = IF @.packed THEN Plain(@.len) ELSE @,
                       !.compressed = FALSE]

\* Python slices of a list with a negative bound: q[-n:] and q[:-n].
LastOf(q, n) == SubSeq(q, IF Len(q) > n THEN Len(q) - n + 1 ELSE 1, Len(q))
AllButLastOf(q, n) == SubSeq(q, 1, IF Len(q) > n THEN Len(q) - n ELSE 0)

\* An archive that takes one message fewer than the active list gives up.
OldMessagesButOne(q) == AllButLastOf(q, KeepRecent + 1)

\* _batch_old_messages: the part that is archived, the part that stays.
OldMessages(q) == AllButLastOf(q, KeepRecent)
RecentMessages(q) == LastOf(q, KeepRecent)

\* ConversationState.add_message
AddMessage(n) ==
  LET message == NewMessage(n)
      stored == IF compress_messages /\ n > CompressOver
                  THEN CompressMessage(message) ELSE message
      all == Append(messages, stored)
  IN
  /\ Len(added) < MaxAdds
  /\ n > CompressOver =>
       Cardinality({i \in 1..Len(added) : added[i].content.len > CompressOver}) < MaxLong
  /\ added' = Append(added, message)
  /\ IF Len(all) > BatchThreshold
       THEN /\ messages' = RecentMessages(all)
            /\ message_batches' =
                 IF OldMessages(all) # <<>>
                   THEN Append(message_batches, [messages |-> OldMessages(all)])
                   ELSE message_batches
       ELSE messages' = all /\ UNCHANGED message_batches
  /\ UNCHANGED <<chat, paginator, cache, compress_messages>>

\* ConversationState.clear_conversation
ClearConversation ==
  /\ messages' = <<>>
  /\ message_batches' = <<>>
  /\ added' = <<>>
  /\ UNCHANGED <<chat, paginator, cache, compress_messages>>

\* ConversationState.enable_compression
EnableCompression(enable) ==
  /\ compress_messages' = enable
  /\ UNCHANGED <<chat, paginator, cache, messages, message_batches, added>>

\* ConversationState.get_messages: the active list, decompressed.
GetMessages == [i \in 1..Len(messages) |-> DecompressMessage(messages[i])]

\* The callers of a ConversationState.
SessionNext ==
  \/ \E n \in Contents : AddMessage(n)
  \/ ClearConversation
  \/ \E enable \in BOOLEAN : EnableCompression(enable)

SessionSpec == Init /\ [][SessionNext]_vars

\* The messages of the batches, in batch order.
RECURSIVE Archived(_)
Archived(batches) ==
  IF batches = <<>> THEN <<>>
  ELSE batches[1].messages \o Archived(Tail(batches))

\* C24: get_messages returns every message added since the last
\* clear_conversation, in insertion order.
C24_GetMessagesReturnsAll == GetMessages = added


\* C30: after any sequence of add_message calls since the last
\* clear_conversation, the messages of the batches in batch order followed by
\* the active list are, decompressed, exactly the messages added, in
\* insertion order.
C30_BatchingLosesNothing ==
  LET kept == Archived(message_batches) \o messages
  IN [i \in 1..Len(kept) |-> DecompressMessage(kept[i])] = added

C30_TwoBatchesArchived ==
  /\ Len(message_batches) = 2
  /\ Len(message_batches[1].messages) = 21
  /\ Len(message_batches[2].messages) = 21
  /\ Len(messages) = 31
  /\ message_batches[1].messages[1].compressed
  /\ Len(added) = 73


\* ------------------------------------------- ui/utils/pagination.py
\* Length of the longest item list a Paginator is built over.
MaxItems == 25
\* The items_per_page values callers pass (10 is the default).
PageSizes == {5, 10}

\* Paginator.total_pages: math.ceil(len(self.items) / self.items_per_page)
TotalPages(n, per) == (n + per - 1) \div per

total_pages == TotalPages(items_len, items_per_page)

\* The current_page setter: max(1, min(value, self.total_pages))
SetCurrentPage(value) ==
  LET low == IF value < total_pages THEN value ELSE total_pages
  IN /\ page' = (IF low > 1 THEN low ELSE 1)
     /\ UNCHANGED <<chat, session_state, cache, items_len, items_per_page>>

\* Paginator.__init__ over n items: the stored page is kept when the key exists.
NewPaginator(n, per) ==
  /\ items_len' = n
  /\ items_per_page' = per
  /\ page' = (IF page = 0 THEN 1 ELSE page)
  /\ UNCHANGED <<chat, session_state, cache>>

\* render_pagination_controls shows controls when there is more than one page;
\* a button that is disabled is not clicked.
FirstPage == page # 0 /\ total_pages > 1 /\ page # 1 /\ SetCurrentPage(1)
PreviousPage == page # 0 /\ total_pages > 1 /\ page # 1 /\ SetCurrentPage(page - 1)
NextPage == page # 0 /\ total_pages > 1 /\ page # total_pages /\ SetCurrentPage(page + 1)
LastPage == page # 0 /\ total_pages > 1 /\ page # total_pages /\ SetCurrentPage(total_pages)
SelectPage(new_page) ==
  page # 0 /\ total_pages > 1 /\ new_page \in 1..total_pages /\ new_page # page
  /\ SetCurrentPage(new_page)

\* get_current_page_items: the indices of self.items[start_idx:end_idx].
CurrentPageItems ==
  LET start_idx == (page - 1) * items_per_page
      end_idx == start_idx + items_per_page
  IN {i \in 0..(items_len - 1) : start_idx <= i /\ i < end_idx}

PageNext ==
  \/ \E n \in 0..MaxItems, per \in PageSizes : NewPaginator(n, per)
  \/ FirstPage
  \/ PreviousPage
  \/ NextPage
  \/ LastPage
  \/ \E new_page \in 1..MaxItems : SelectPage(new_page)

PageSpec == Init /\ [][PageNext]_vars

\* C25: for a Paginator over a non-empty list the stored current page is
\* within 1..total_pages.
C25_CurrentPageInRange ==
  (page # 0 /\ items_len > 0) => page \in 1..total_pages


\* ------------------------------------------- ui/utils/caching.py
\* Number of calls of the wrapped function.
MaxCacheCalls == 5
\* Seconds that pass between two calls.
CacheTick == 1800
\* The last second of the clock.
MaxClock == 7200

\* cache_data(ttl_seconds: int = 3600)
ttl_seconds == 3600

\* The arguments of the calls (their cache keys), the seconds the function
\* runs, and the results it computes.
CacheKeys == {"cache_f_a", "cache_f_b"}
Durations == {0, 1}
Results == {1, 2}

\* An entry that is still taken at the age of ttl_seconds.
FreshAtTtl(age) == age <= ttl_seconds

\* time.time() - timestamp < ttl_seconds
Fresh(age) == age < ttl_seconds

\* wrapper(*args, **kwargs): a call with the arguments of key k; when the
\* function is invoked it runs d seconds and returns r.
CacheCall(k, d, r) ==
  LET present == k \in DOMAIN cache_entries
      age == IF present THEN clock - cache_entries[k].timestamp ELSE 0
  IN
  /\ last_call.n < MaxCacheCalls
  /\ IF present /\ Fresh(age)
       THEN /\ last_call' = [n |-> last_call.n + 1, key |-> k, invoked |-> FALSE,
                             returned |-> cache_entries[k].result, age |-> age]
            /\ UNCHANGED <<cache_entries, clock>>
       ELSE /\ clock + d <= MaxClock
            /\ clock' = clock + d
            /\ cache_entries' = Put(cache_entries, k,
                                    [result |-> r, timestamp |-> clock + d])
            /\ last_call' = [n |-> last_call.n + 1, key |-> k, invoked |-> TRUE,
                             returned |-> r, age |-> age]
  /\ UNCHANGED <<chat, session_state, paginator>>

\* clear_cache(): every entry is removed.
ClearCache ==
  /\ cache_entries' = [x \in {} |-> 0]
  /\ UNCHANGED <<chat, session_state, paginator, clock, last_call>>

\* Time passes between two calls.
Waits == {CacheTick - 1, CacheTick}
CacheWait(w) ==
  /\ clock + w <= MaxClock
  /\ clock' = clock + w
  /\ UNCHANGED <<chat, session_state, paginator, cache_entries, last_call>>

CacheNext ==
  \/ \E k \in CacheKeys, d \in Durations, r \in Results : CacheCall(k, d, r)
  \/ ClearCache
  \/ \E w \in Waits : CacheWait(w)

CacheSpec == Init /\ [][CacheNext]_vars

\* C26: a call made less than ttl_seconds after the entry of its arguments
\* was stored returns the stored result, does not invoke the function and
\* leaves the entry; a call made ttl_seconds or more after it, or without an
\* entry, invokes the function and stores its result with the time of storing.
C26_CacheHonoursTtl ==
  [][last_call'.n = last_call.n + 1 =>
       LET k == last_call'.key
       IN IF k \in DOMAIN cache_entries
             /\ clock - cache_entries[k].timestamp < ttl_seconds
            THEN /\ ~last_call'.invoked
                 /\ last_call'.returned = cache_entries[k].result
                 /\ UNCHANGED cache_entries
            ELSE /\ last_call'.invoked
                 /\ cache_entries' =
                      Put(cache_entries, k, [result |-> last_call'.returned,
                                             timestamp |-> clock'])]_vars

C26_InvokedAgainAtTtl ==
  /\ last_call.invoked /\ last_call.age = ttl_seconds
  /\ last_call.key \in DOMAIN cache_entries
  /\ cache_entries[last_call.key] = [result |-> last_call.returned, timestamp |-> clock]
  /\ \E k \in DOMAIN cache_entries \ {last_call.key} :
       clock - cache_entries[k].timestamp > ttl_seconds


\* Clients of two sessions, each sending one message; the generations of the
\* two sessions overlap.
CrossNext ==
  \/ \E s \in Sessions : calls[s] = 0 /\ HandleMessage(s, <<"h", "i">>)
  \/ \E g \in Gens : Begin(g)
  \/ \E g \in Gens : Poll(g)
  \/ \E g \in Gens : PostCheck(g)
  \/ \E g \in Gens : FinalCheck(g)
  \/ \E g \in Gens : AppendResponse(g)
  \/ \E g \in Gens : Cleanup(g)
  \/ \E g \in Gens : WorkerPatch(g)
  \/ \E g \in Gens, how \in OutputCalls : AgentWrite(g, 60, how)
  \/ \E g \in Gens : AgentReturn(g, "response")

CrossSpec == Init /\ [][CrossNext]_vars

\* C27: no agent_streaming event sent to the room of a generation contains
\* text written by the agent call of a generation of another session.
C27_NoForeignTextInEvents ==
  \A g \in Gens :
    pc[g] # "idle" =>
      \A i \in 1..Len(emitted[g]) :
        \A j \in 1..Len(emitted[g][i].content) :
          session_of[emitted[g][i].content[j].src] = session_of[g]

\* C28: whenever no generation of any session is in flight, sys.stdout is the
\* stream that was installed before the first generation started.
C28_StdoutRestoredWhenIdle ==
  (\A s \in Sessions : InFlight(s) = {}) => sys_stdout = 0

\* C29: from a clear_conversation until the next user message of the session
\* its transcript holds only the welcome message.
C29_ClearedTranscriptStaysCleared ==
  \A s \in Sessions :
    (s \in DOMAIN conversations /\ calls[s] = 0)
      => conversations[s] = <<AssistantMsg(WelcomeText)>>

=============================================================================
